---- MODULE Spec2Model ----
(***************************************************************************)
(* Reaction reconciliation of ts/messageModifiers/Reactions.ts:            *)
(* the pending-reaction collection (Reactions), forMessage, findMessage    *)
(* and onReaction with its job on the target conversation's queue.         *)
(*                                                                         *)
(* JavaScript runs one task at a time: every action below is the code      *)
(* between two suspension points (await) of one call, or one step of the   *)
(* environment (a message saved, deleted, or handed to forMessage).        *)
(*                                                                         *)
(* Spec           the collection, onReaction and the message pipeline      *)
(* FairSpec       Spec with every pending step of a call eventually taken  *)
(* SpecForMessage forMessage alone, on collections of any content          *)
(* SpecGroups     components/.../ConversationDetailsGroups.tsx             *)
(***************************************************************************)
EXTENDS Integers, Sequences, FiniteSets, TLC

\* ------------------------------------------------------------------ bounds
\* How many reactions are received (Reactions.add + onReaction) in one run.
MaxCalls == 2

\* How many stored messages are deleted in one run.
MaxDeletes == 1

\* forMessage on its own: how many reactions the collection holds, and how
\* many times in a row forMessage is called with one message.
MaxBuffer == 3

MaxRepeat == 2

\* ConversationDetailsGroups: how many groups there are to have in common.
MaxGroups == 7

\* ------------------------------------------------------------ the universe
None == "none"

\* Conversations the directory knows, with what whatTypeOfConversation reads.
Conversations ==
  [ me |-> [type |-> "private", isMe |-> TRUE,  expireTimer |-> 0],
    A  |-> [type |-> "private", isMe |-> FALSE, expireTimer |-> 60],
    G  |-> [type |-> "group",   isMe |-> FALSE, expireTimer |-> 0] ]

ConvIds == DOMAIN Conversations

\* Messages that may become known locally. m1 and m2 share a send timestamp
\* (sender-assigned timestamps of different authors may collide).
Message ==
  [ m1 |-> [sent_at |-> 1, type |-> "incoming", contact |-> "A",
            conversationId |-> "G"],
    m2 |-> [sent_at |-> 1, type |-> "outgoing", contact |-> "me",
            conversationId |-> "G"],
    m3 |-> [sent_at |-> 2, type |-> "story",    contact |-> "me",
            conversationId |-> "me"] ]

MsgIds == DOMAIN Message

\* Reaction models (ReactionAttributesType) together with the conversation of
\* the message generated for them (generatedMessage.get('conversationId')).
Reaction ==
  [ r1 |-> [emoji |-> "thumbs", fromId |-> "A", targetAuthorUuid |-> "uuid-A",
            targetTimestamp |-> 1, conversationId |-> "G"],
    r2 |-> [emoji |-> "joy",    fromId |-> "A", targetAuthorUuid |-> "uuid-A",
            targetTimestamp |-> 1, conversationId |-> "G"],
    r3 |-> [emoji |-> "heart",  fromId |-> "A", targetAuthorUuid |-> "uuid-me",
            targetTimestamp |-> 1, conversationId |-> "G"],
    r4 |-> [emoji |-> "wow",    fromId |-> "A", targetAuthorUuid |-> "uuid-me",
            targetTimestamp |-> 2, conversationId |-> "A"],
    r5 |-> [emoji |-> "sad",    fromId |-> "A", targetAuthorUuid |-> "",
            targetTimestamp |-> 1, conversationId |-> "A"] ]

ReactionIds == DOMAIN Reaction

Senders == {Reaction[r].fromId : r \in ReactionIds}

\* ------------------------------------------------------------ collaborators
\* window.ConversationController.lookupOrCreate({uuid}): the conversation id
\* of the identity, or none when no identity can be derived.
LookupOrCreate(uuid) ==
  CASE uuid = "uuid-me" -> "me"
    [] uuid = "uuid-A"  -> "A"
    [] OTHER            -> None

\* window.ConversationController.get(id)
ConversationGet(id) == IF id \in ConvIds THEN id ELSE None

\* messages/helpers getContact(m) / getContactId(m): the sender's conversation.
GetContact(m) == Message[m].contact

GetContactId(m) == GetContact(m)

IsOutgoing(m) == Message[m].type = "outgoing"

IsStory(m) == Message[m].type = "story"

IsDirectConversation(c) == Conversations[c].type = "private"

IsMe(c) == Conversations[c].isMe

\* window.Signal.Data.getMessagesBySentAt(ts) on the store st.
GetMessagesBySentAt(ts, st) == {m \in st : Message[m].sent_at = ts}

\* ConversationController.getConversationForTargetMessage(authorId, ts): the
\* conversation of the stored message of that author and timestamp, or none.
GetConversationForTargetMessage(authorId, ts, st) ==
  LET hits == {m \in GetMessagesBySentAt(ts, st) : GetContactId(m) = authorId}
  IN  IF hits = {} THEN {None}
      ELSE {ConversationGet(Message[m].conversationId) : m \in hits}

\* message.handleReaction(reaction): the reaction replaces the sender's
\* earlier reaction on the message (one reaction per sender).
HandleReaction(rs, m, r) ==
  [rs EXCEPT ![m][Reaction[r].fromId] = Reaction[r].emoji]

\* ---------------------------------------------------------------- the state
VARIABLES
  store,              \* ids of the messages in the message store
  arrival,            \* per message: "none", "saved", "done" (forMessage called)
  buffer,             \* the Reactions collection: a sequence of reaction ids
  pc,                 \* per reaction: where its onReaction call stands
  calls,              \* reactions in the order onReaction was called
  targetMessageCheck, \* per call: the message of the first lookup (line 111)
  targetConversation, \* per call: the resolved target conversation
  enqueuedOn,         \* per call: the conversation queue holding its job
  queue,              \* per conversation: its jobs in FIFO order, head running
  targetMessage,      \* per call: the message read inside the job (line 160)
  generated,          \* per call: what the job set on generatedMessage
  saved,              \* per call: the generatedMessage attributes saved
  convMessages,       \* per conversation: generated messages added to it
  reactions,          \* per message, per sender: the reaction it carries
  errors,             \* per call: log.error lines written by its catch
  propagated,         \* per call: TRUE when its promise rejected
  failedAt,           \* per call: the collaborator that failed, or none
  outcome,            \* per call: how it ended
  returnedBy,         \* per reaction: the messages whose forMessage returned it
  handledOn,          \* per call: the message its job passed to handleReaction
  targetsAtLookup,    \* per call: <<target messages stored, target messages
                      \*   saved so far>> at the first lookup
  targetsAtJob,       \* per call: <<target messages stored at the job's lookup>>
  fmMessage,          \* the message forMessage was last called with, or none
  fmBefore,           \* the collection as the first of these calls found it
  fmReturned,         \* what each call with that message returned, in order
  fmLookups,          \* per call: the models whose target author it looked up
  groupsInCommon,     \* ConversationDetailsGroups: the groups in its props
  showAllGroups       \* ConversationDetailsGroups: its useState flag

callVars == <<pc, failedAt, errors, propagated, outcome>>

jobVars == <<targetMessage, generated, saved, convMessages, handledOn,
             targetsAtJob>>

envVars == <<store, arrival, returnedBy>>

\* What one forMessage call on its own reads and writes besides the buffer.
fmVars == <<fmMessage, fmBefore, fmReturned, fmLookups>>

\* The state of the ConversationDetailsGroups component.
uiVars == <<groupsInCommon, showAllGroups>>

\* The state of the Reactions collection, its calls and its environment.
vars_reactions ==
  <<store, arrival, buffer, pc, calls, targetMessageCheck,
    targetConversation, enqueuedOn, queue, targetMessage, generated,
    saved, convMessages, reactions, errors, propagated, failedAt,
    outcome, returnedBy, handledOn, targetsAtLookup, targetsAtJob>>

vars == <<vars_reactions, fmVars, uiVars>>

\* The stored messages a reaction is aimed at: sent at its target timestamp
\* by the author its targetAuthorUuid names.
IsTargetOf(m, r) ==
  /\ Message[m].sent_at = Reaction[r].targetTimestamp
  /\ LookupOrCreate(Reaction[r].targetAuthorUuid) # None
  /\ Message[m].contact = LookupOrCreate(Reaction[r].targetAuthorUuid)

TargetsIn(r, st) == {m \in st : IsTargetOf(m, r)}

\* ------------------------------------------------------ the Reactions class
SeqToSet(s) == {s[i] : i \in 1..Len(s)}

\* Collection.add(model), done by the caller right before onReaction.
Add(buf, r) == IF r \in SeqToSet(buf) THEN buf ELSE Append(buf, r)

\* Collection.remove(models)
Remove(buf, rs) == SelectSeq(buf, LAMBDA x : x \notin rs)

\* forMessage with the outgoing match left out: by source only.
ForMessage_bySource(m, buf) ==
  SelectSeq(buf, LAMBDA r :
    /\ LookupOrCreate(Reaction[r].targetAuthorUuid) = GetContactId(m)
    /\ Reaction[r].targetTimestamp = Message[m].sent_at)

\* forMessage, lines 33-64: the models it returns, in collection order.
ForMessage(m, buf) ==
  LET outgoingReactions ==
        SelectSeq(buf, LAMBDA r :
          Reaction[r].targetTimestamp = Message[m].sent_at)
      senderId == GetContactId(m)
      sentAt == Message[m].sent_at
      reactionsBySource ==
        SelectSeq(buf, LAMBDA r :
          /\ LookupOrCreate(Reaction[r].targetAuthorUuid) = senderId
          /\ Reaction[r].targetTimestamp = sentAt)
  IN  IF IsOutgoing(m) /\ Len(outgoingReactions) > 0
      THEN outgoingReactions
      ELSE IF Len(reactionsBySource) > 0 THEN reactionsBySource ELSE <<>>

\* forMessage returning without this.remove(...).
ForMessageRemove_keep(m, buf) == buf

\* forMessage's effect on the collection: what it returns is removed.
\* forMessage removing only the first model it returns.
ForMessageRemove_first(m, buf) ==
  IF ForMessage(m, buf) = <<>> THEN buf
  ELSE Remove(buf, {Head(ForMessage(m, buf))})

ForMessageRemove(m, buf) == Remove(buf, SeqToSet(ForMessage(m, buf)))

\* The models forMessage passes to lookupOrCreate: the by-source filter of
\* lines 46-55 visits every model, and runs only when the outgoing branch
\* (lines 34-44) has not returned.
ForMessageLookups(m, buf) ==
  LET outgoingReactions ==
        SelectSeq(buf, LAMBDA r :
          Reaction[r].targetTimestamp = Message[m].sent_at)
  IN  IF IsOutgoing(m) /\ Len(outgoingReactions) > 0
      THEN {}
      ELSE SeqToSet(buf)

\* findMessage, lines 66-84: the stored messages find() may return.
FindMessage(targetTimestamp, targetConversationId, st) ==
  {m \in GetMessagesBySentAt(targetTimestamp, st) :
     /\ GetContact(m) # None
     /\ GetContact(m) = targetConversationId}

\* onReaction, lines 93-98
TargetConversationId(r) == LookupOrCreate(Reaction[r].targetAuthorUuid)

\* onReaction, lines 105-107
FromConversation(r) == ConversationGet(Reaction[r].conversationId)

\* onReaction, lines 125-130: the story exception.
StoryException(r, m) ==
  /\ FromConversation(r) # None
  /\ IsStory(m)
  /\ IsDirectConversation(FromConversation(r))
  /\ ~IsMe(FromConversation(r))

\* onReaction, lines 115-123: the collection after 'No message for reaction'.
NoMessageRemove_drop(buf, r) == Remove(buf, {r})

NoMessageRemove(buf, r) == buf

\* The job queued on the target author's conversation instead.
JobQueue_author(r, conv) == TargetConversationId(r)

\* onReaction, line 150: the queue the job is put on.
JobQueue(r, conv) == conv

\* The job reusing the message of the first lookup.
JobFindMessage_stale(r, st) == {targetMessageCheck[r]}

\* onReaction, lines 160-163: the messages the job's own lookup may return.
JobFindMessage(r, st) ==
  FindMessage(Reaction[r].targetTimestamp, TargetConversationId(r), st)

\* The job's promise not awaited inside the try block.
TryCovers_notJob(site) ==
  site \in {"lookupOrCreate", "findMessage", "getConversationForTargetMessage"}

\* onReaction, lines 90 and 218-220: the failures the try block covers.
TryCovers(site) ==
  site \in {"lookupOrCreate", "findMessage", "getConversationForTargetMessage",
            "queueJob"}

\* onReaction, lines 177-185: generatedMessage.set(...)
StoryAttributes(r, m, conv) ==
  [ expireTimer |-> Conversations[conv].expireTimer,
    storyId |-> m,
    storyReaction |-> [ emoji |-> Reaction[r].emoji,
                        targetAuthorUuid |-> Reaction[r].targetAuthorUuid,
                        targetTimestamp |-> Reaction[r].targetTimestamp ] ]

\* --------------------------------------------------------------------- Init
\* No message known, no onReaction call made, no job queued.
NothingReceived ==
  /\ store = {}
  /\ arrival = [m \in MsgIds |-> "none"]
  /\ pc = [r \in ReactionIds |-> "new"]
  /\ calls = <<>>
  /\ targetMessageCheck = [r \in ReactionIds |-> None]
  /\ targetConversation = [r \in ReactionIds |-> None]
  /\ enqueuedOn = [r \in ReactionIds |-> None]
  /\ queue = [c \in ConvIds |-> <<>>]
  /\ targetMessage = [r \in ReactionIds |-> None]
  /\ generated = [r \in ReactionIds |-> <<>>]
  /\ saved = [r \in ReactionIds |-> <<>>]
  /\ convMessages = [c \in ConvIds |-> {}]
  /\ reactions = [m \in MsgIds |-> [s \in Senders |-> None]]
  /\ errors = [r \in ReactionIds |-> 0]
  /\ propagated = [r \in ReactionIds |-> FALSE]
  /\ failedAt = [r \in ReactionIds |-> None]
  /\ outcome = [r \in ReactionIds |-> None]
  /\ returnedBy = [r \in ReactionIds |-> {}]
  /\ handledOn = [r \in ReactionIds |-> None]
  /\ targetsAtLookup = [r \in ReactionIds |-> <<>>]
  /\ targetsAtJob = [r \in ReactionIds |-> <<>>]

\* No forMessage call observed on its own.
NoForMessageCall ==
  /\ fmMessage = None
  /\ fmBefore = <<>>
  /\ fmReturned = <<>>
  /\ fmLookups = <<>>

\* ConversationDetailsGroups as mounted: React.useState(false), line 30.
Mounted ==
  /\ groupsInCommon = {}
  /\ showAllGroups = FALSE

Init ==
  /\ buffer = <<>>
  /\ NothingReceived
  /\ NoForMessageCall
  /\ Mounted

\* ------------------------------------------------- how an onReaction call ends
\* A collaborator failed at `site`: the catch of lines 218-220 logs it, and
\* the call returns; outside the try block the rejection reaches the caller.
Fail(r, site) ==
  /\ pc' = [pc EXCEPT ![r] = "done"]
  /\ failedAt' = [failedAt EXCEPT ![r] = site]
  /\ outcome' = [outcome EXCEPT ![r] = "Error"]
  /\ errors' = IF TryCovers(site) THEN [errors EXCEPT ![r] = @ + 1] ELSE errors
  /\ propagated' = IF TryCovers(site) THEN propagated
                   ELSE [propagated EXCEPT ![r] = TRUE]

Return(r, how) ==
  /\ pc' = [pc EXCEPT ![r] = "done"]
  /\ outcome' = [outcome EXCEPT ![r] = how]
  /\ UNCHANGED <<failedAt, errors, propagated>>

Goto(r, next) ==
  /\ pc' = [pc EXCEPT ![r] = next]
  /\ UNCHANGED <<failedAt, errors, propagated, outcome>>

\* targetConversation.queueJob(...): the job joins the queue's tail.
Enqueue(r, conv) ==
  /\ targetConversation' = [targetConversation EXCEPT ![r] = conv]
  /\ enqueuedOn' = [enqueuedOn EXCEPT ![r] = JobQueue(r, conv)]
  /\ queue' = [queue EXCEPT ![JobQueue(r, conv)] = Append(@, r)]
  /\ Goto(r, "queued")

\* The running job (the head of its queue) ends; the queue goes on.
JobEnds(r) == queue' = [queue EXCEPT ![enqueuedOn[r]] = Tail(@)]

\* A conversation queue runs one job at a time, in FIFO order.
IsNextJob(r) == Head(queue[enqueuedOn[r]]) = r

\* The own sent messages onReaction matches the reaction against before it
\* resolves the target author: none. The try block of onReaction opens with
\* lookupOrCreate (lines 90-97); only forMessage has an outgoing match.
EarlyMatch_outgoingFirst(r, st) ==
  {m \in st : IsOutgoing(m)
               /\ Message[m].sent_at = Reaction[r].targetTimestamp}

EarlyMatch(r, st) == {}

\* The conversation queue whose running job the caller of onReaction is, or
\* none. Line 149: "awaiting is safe since `onReaction` is never called from
\* inside the queue". A job that called onReaction would hold its queue until
\* onReaction returned.
CallerQueue_inside(r) == FromConversation(r)

CallerQueue(r) == None

\* ------------------------------------------------------------------ actions
\* The caller adds the reaction to the collection and calls onReaction, which
\* runs to its first await (lines 90-111).
OnReaction(r) ==
  /\ pc[r] = "new"
  /\ Len(calls) < MaxCalls
  /\ calls' = Append(calls, r)
  /\ IF EarlyMatch(r, store) # {}
     THEN \E m \in EarlyMatch(r, store) :
            /\ buffer' = ForMessageRemove(m, Add(buffer, r))
            /\ returnedBy' =
                 [x \in ReactionIds |->
                    IF x \in SeqToSet(ForMessage(m, Add(buffer, r)))
                    THEN returnedBy[x] \cup {m} ELSE returnedBy[x]]
            /\ Return(r, "OutgoingMatch")
     ELSE /\ buffer' = Add(buffer, r)
          /\ UNCHANGED returnedBy
          /\ IF TargetConversationId(r) = None
             THEN Fail(r, "lookupOrCreate")
             ELSE Goto(r, "findMessage")
  /\ UNCHANGED <<fmVars, uiVars>>
  /\ UNCHANGED <<store, arrival, jobVars, targetMessageCheck,
                 targetConversation, enqueuedOn, queue, reactions,
                 targetsAtLookup>>

\* The first findMessage settles (lines 111-138 and, for the story exception,
\* line 150).
FirstLookup(r) ==
  /\ pc[r] = "findMessage"
  /\ targetsAtLookup' = [targetsAtLookup EXCEPT ![r] =
       <<TargetsIn(r, store),
         TargetsIn(r, {m \in MsgIds : arrival[m] # "none"})>>]
  /\ \/ /\ Fail(r, "findMessage")
        /\ UNCHANGED <<targetMessageCheck, targetConversation, enqueuedOn,
                       queue, buffer>>
     \/ LET found == FindMessage(Reaction[r].targetTimestamp,
                                 TargetConversationId(r), store)
        IN  IF found = {}
            THEN /\ Return(r, "NoMessage")
                 /\ buffer' = NoMessageRemove(buffer, r)
                 /\ UNCHANGED <<targetMessageCheck, targetConversation,
                                enqueuedOn, queue>>
            ELSE \E m \in found :
                   /\ targetMessageCheck' = [targetMessageCheck EXCEPT ![r] = m]
                   /\ UNCHANGED buffer
                   /\ IF StoryException(r, m)
                      THEN Enqueue(r, FromConversation(r))
                      ELSE /\ Goto(r, "getConversation")
                           /\ UNCHANGED <<targetConversation, enqueuedOn,
                                          queue>>
  /\ UNCHANGED <<fmVars, uiVars>>
  /\ UNCHANGED <<envVars, jobVars, calls, reactions>>

\* getConversationForTargetMessage settles (lines 133-150).
ResolveConversation(r) ==
  /\ pc[r] = "getConversation"
  /\ \/ /\ Fail(r, "getConversationForTargetMessage")
        /\ UNCHANGED <<targetConversation, enqueuedOn, queue>>
     \/ \E conv \in GetConversationForTargetMessage(
                      TargetConversationId(r),
                      Reaction[r].targetTimestamp, store) :
          IF conv = None
          THEN /\ Return(r, "NoConversation")
               /\ UNCHANGED <<targetConversation, enqueuedOn, queue>>
          ELSE Enqueue(r, conv)
  /\ UNCHANGED <<fmVars, uiVars>>
  /\ UNCHANGED <<envVars, jobVars, buffer, calls, reactions,
                 targetMessageCheck, targetsAtLookup>>

\* The queue starts the job at its head (lines 151-160).
JobStart(r) ==
  /\ pc[r] = "queued"
  /\ IsNextJob(r)
  /\ CallerQueue(r) # enqueuedOn[r]
  /\ Goto(r, "jobFindMessage")
  /\ UNCHANGED <<fmVars, uiVars>>
  /\ UNCHANGED <<envVars, jobVars, buffer, calls, reactions, queue,
                 targetMessageCheck, targetConversation, enqueuedOn,
                 targetsAtLookup>>

\* The job's findMessage settles (lines 160-185).
JobLookup(r) ==
  /\ pc[r] = "jobFindMessage"
  /\ targetsAtJob' = [targetsAtJob EXCEPT ![r] = <<TargetsIn(r, store)>>]
  /\ \/ /\ Fail(r, "queueJob")
        /\ JobEnds(r)
        /\ UNCHANGED <<targetMessage, generated>>
     \/ LET found == JobFindMessage(r, store)
        IN  IF found = {}
            THEN /\ Return(r, "JobNoMessage")
                 /\ JobEnds(r)
                 /\ UNCHANGED <<targetMessage, generated>>
            ELSE \E m \in found :
                   /\ targetMessage' = [targetMessage EXCEPT ![r] = m]
                   /\ UNCHANGED queue
                   /\ IF IsStory(m)
                      THEN /\ generated' = [generated EXCEPT ![r] =
                                <<StoryAttributes(r, m, targetConversation[r])>>]
                           /\ Goto(r, "saveMessage")
                      ELSE /\ UNCHANGED generated
                           /\ Goto(r, "handleReaction")
  /\ UNCHANGED <<fmVars, uiVars>>
  /\ UNCHANGED <<envVars, buffer, calls, reactions, saved, convMessages,
                 handledOn, targetMessageCheck, targetConversation,
                 enqueuedOn, targetsAtLookup>>

\* saveMessage and hydrateStoryContext settle (lines 188-212).
JobSave(r) ==
  /\ pc[r] = "saveMessage"
  /\ \/ \E written \in BOOLEAN :
          /\ saved' = IF written THEN [saved EXCEPT ![r] = generated[r]]
                      ELSE saved
          /\ Fail(r, "queueJob")
          /\ JobEnds(r)
          /\ UNCHANGED convMessages
     \/ /\ saved' = [saved EXCEPT ![r] = generated[r]]
        /\ convMessages' = [convMessages EXCEPT ![targetConversation[r]] =
                              @ \cup {r}]
        /\ Goto(r, "handleReaction")
        /\ UNCHANGED queue
  /\ UNCHANGED <<fmVars, uiVars>>
  /\ UNCHANGED <<envVars, buffer, calls, reactions, targetMessage, generated,
                 handledOn, targetsAtJob, targetMessageCheck,
                 targetConversation, enqueuedOn, targetsAtLookup>>

\* message.handleReaction(reaction) is called and settles (lines 214-217).
JobHandleReaction(r) ==
  /\ pc[r] = "handleReaction"
  /\ handledOn' = [handledOn EXCEPT ![r] = targetMessage[r]]
  /\ JobEnds(r)
  /\ \/ \E attached \in BOOLEAN :
          /\ reactions' = IF attached
                          THEN HandleReaction(reactions, targetMessage[r], r)
                          ELSE reactions
          /\ Fail(r, "queueJob")
          /\ UNCHANGED buffer
     \/ /\ reactions' = HandleReaction(reactions, targetMessage[r], r)
        /\ buffer' = Remove(buffer, {r})
        /\ Return(r, "Applied")
  /\ UNCHANGED <<fmVars, uiVars>>
  /\ UNCHANGED <<envVars, calls, targetMessage, generated, saved,
                 convMessages, targetsAtJob, targetMessageCheck,
                 targetConversation, enqueuedOn, targetsAtLookup>>

\* The message pipeline makes a message durably known.
SaveMessage(m) ==
  /\ arrival[m] = "none"
  /\ arrival' = [arrival EXCEPT ![m] = "saved"]
  /\ store' = store \cup {m}
  /\ UNCHANGED <<fmVars, uiVars>>
  /\ UNCHANGED <<callVars, jobVars, buffer, calls, reactions, queue,
                 returnedBy, targetMessageCheck, targetConversation,
                 enqueuedOn, targetsAtLookup>>

\* The message pipeline claims the early reactions of a message it has saved
\* (forMessage, lines 33-64) and applies each of them to the message.
RECURSIVE ApplyAll(_, _, _)
ApplyAll(rs, m, claimed) ==
  IF claimed = <<>> THEN rs
  ELSE ApplyAll(HandleReaction(rs, m, Head(claimed)), m, Tail(claimed))

MessageArrived(m) ==
  /\ arrival[m] = "saved"
  /\ arrival' = [arrival EXCEPT ![m] = "done"]
  /\ buffer' = ForMessageRemove(m, buffer)
  /\ returnedBy' = [r \in ReactionIds |->
                      IF r \in SeqToSet(ForMessage(m, buffer))
                      THEN returnedBy[r] \cup {m} ELSE returnedBy[r]]
  /\ reactions' = ApplyAll(reactions, m, ForMessage(m, buffer))
  /\ UNCHANGED <<fmVars, uiVars>>
  /\ UNCHANGED <<callVars, jobVars, store, calls, queue, targetMessageCheck,
                 targetConversation, enqueuedOn, targetsAtLookup>>

\* A stored message is deleted.
DeleteMessage(m) ==
  /\ m \in store
  /\ Cardinality({x \in MsgIds : arrival[x] # "none" /\ x \notin store})
       < MaxDeletes
  /\ store' = store \ {m}
  /\ UNCHANGED <<fmVars, uiVars>>
  /\ UNCHANGED <<callVars, jobVars, arrival, returnedBy, buffer, calls,
                 reactions, queue, targetMessageCheck, targetConversation,
                 enqueuedOn, targetsAtLookup>>

Next ==
  \/ \E r \in ReactionIds : OnReaction(r)
  \/ \E r \in ReactionIds : FirstLookup(r)
  \/ \E r \in ReactionIds : ResolveConversation(r)
  \/ \E r \in ReactionIds : JobStart(r)
  \/ \E r \in ReactionIds : JobLookup(r)
  \/ \E r \in ReactionIds : JobSave(r)
  \/ \E r \in ReactionIds : JobHandleReaction(r)
  \/ \E m \in MsgIds : SaveMessage(m)
  \/ \E m \in MsgIds : MessageArrived(m)
  \/ \E m \in MsgIds : DeleteMessage(m)

Spec == Init /\ [][Next]_vars

\* A step of some onReaction call after its first one: an awaited
\* collaborator call settles, or a conversation queue starts the job at its
\* head.
CallStep ==
  \E r \in ReactionIds :
    \/ FirstLookup(r)
    \/ ResolveConversation(r)
    \/ JobStart(r)
    \/ JobLookup(r)
    \/ JobSave(r)
    \/ JobHandleReaction(r)

\* Every awaited collaborator call settles and every conversation queue runs
\* the job at its head: the calls do not all stand still while one of them
\* can take a step.
Fairness == WF_vars(CallStep)

FairSpec == Spec /\ Fairness

\* ------------------------------------------------ forMessage on its own
\* Collection.add of a reaction; what was observed of forMessage is cleared.
AddReaction(r) ==
  /\ r \notin SeqToSet(buffer)
  /\ Len(buffer) < MaxBuffer
  /\ buffer' = Add(buffer, r)
  /\ fmMessage' = None
  /\ fmBefore' = <<>>
  /\ fmReturned' = <<>>
  /\ fmLookups' = <<>>
  /\ UNCHANGED uiVars
  /\ UNCHANGED <<envVars, callVars, jobVars, calls, targetMessageCheck,
                 targetConversation, enqueuedOn, queue, reactions,
                 targetsAtLookup>>

\* One call forMessage(m), lines 33-64: find and remove, no await between.
CallForMessage(m) ==
  /\ fmMessage = m => Len(fmReturned) < MaxRepeat
  /\ buffer' = ForMessageRemove(m, buffer)
  /\ fmMessage' = m
  /\ fmBefore' = IF fmMessage = m THEN fmBefore ELSE buffer
  /\ fmReturned' = Append(IF fmMessage = m THEN fmReturned ELSE <<>>,
                          ForMessage(m, buffer))
  /\ fmLookups' = Append(IF fmMessage = m THEN fmLookups ELSE <<>>,
                         ForMessageLookups(m, buffer))
  /\ UNCHANGED uiVars
  /\ UNCHANGED <<envVars, callVars, jobVars, calls, targetMessageCheck,
                 targetConversation, enqueuedOn, queue, reactions,
                 targetsAtLookup>>

NextForMessage ==
  \/ \E r \in ReactionIds : AddReaction(r)
  \/ \E m \in MsgIds : CallForMessage(m)

SpecForMessage == Init /\ [][NextForMessage]_vars

\* ------------------------------------------------------------------- claims
InBuffer(r) == r \in SeqToSet(buffer)

\* How often a reaction was handed to handleReaction: once per forMessage call
\* that returned it, and once when the job of its onReaction call got there.
Applications(r) ==
  Cardinality(returnedBy[r]) + (IF handledOn[r] = None THEN 0 ELSE 1)

LookedUp(r) == targetsAtLookup[r] # <<>>

\* No target message was in the store when the first lookup read it.
TargetAbsentAtLookup(r) == LookedUp(r) /\ targetsAtLookup[r][1] = {}

TargetPresentAtLookup(r) == LookedUp(r) /\ targetsAtLookup[r][1] # {}

\* No target message had been saved yet when the first lookup read the store.
TargetNotYetArrived(r) == LookedUp(r) /\ targetsAtLookup[r][2] = {}

SameTimestampOutgoing(m, r) ==
  IsOutgoing(m) /\ Message[m].sent_at = Reaction[r].targetTimestamp

\* C1: a buffered reaction is claimed by exactly one of the two paths: it is
\* never both returned by forMessage(m), m its target message, and passed to
\* handleReaction by the job of onReaction; and when m is in the store and
\* both paths have run, it was claimed by one of them. (Stated for the calls
\* in which no collaborator fails: the interleaving alone decides it.)
C1_ExactlyOnePath ==
  \A r \in ReactionIds : \A m \in MsgIds :
    (IsTargetOf(m, r) /\ failedAt[r] = None) =>
      /\ ~(m \in returnedBy[r] /\ handledOn[r] # None)
      /\ (pc[r] = "done" /\ arrival[m] = "done" /\ m \in store)
           => (returnedBy[r] # {} \/ handledOn[r] # None)

\* C2 as stated: a reaction whose target message has not reached the store
\* when onReaction looks it up stays in the buffer until forMessage is called for
\* the target message; that call returns it and removes it, and the reaction
\* is applied exactly once overall.
C2_HeldThenClaimedByTarget ==
  \A r \in ReactionIds :
    (TargetNotYetArrived(r) /\ failedAt[r] = None) =>
      /\ (pc[r] = "done"
            /\ \A m \in MsgIds : IsTargetOf(m, r) => arrival[m] # "done")
           => InBuffer(r)
      /\ \A m \in MsgIds :
           (IsTargetOf(m, r) /\ arrival[m] = "done")
             => (returnedBy[r] = {m} /\ ~InBuffer(r) /\ Applications(r) = 1)

\* C2 as amended: a reaction whose target message has not reached the store
\* when onReaction looks it up gets no job; it stays in the buffer until a
\* forMessage call returns it, is returned at most once and applied at most
\* once; once forMessage has been called for the target message the reaction
\* has been returned exactly once and is out of the buffer, returned by that
\* call or by the earlier call for an outgoing message of the same timestamp.
C2_HeldThenClaimedOnce ==
  \A r \in ReactionIds :
    TargetNotYetArrived(r) =>
      /\ enqueuedOn[r] = None
      /\ handledOn[r] = None
      /\ Cardinality(returnedBy[r]) <= 1
      /\ InBuffer(r) <=> returnedBy[r] = {}
      /\ \A m \in returnedBy[r] :
           IsTargetOf(m, r) \/ SameTimestampOutgoing(m, r)
      /\ \A m \in MsgIds :
           (IsTargetOf(m, r) /\ arrival[m] = "done")
             => (Applications(r) = 1 /\ ~InBuffer(r))

\* C2's case: the target message arrived after the lookup and its forMessage
\* call returned the reaction, which the message now carries.
C2_Witness ==
  \E r \in ReactionIds : \E m \in MsgIds :
    /\ TargetNotYetArrived(r)
    /\ pc[r] = "done"
    /\ IsTargetOf(m, r)
    /\ returnedBy[r] = {m}
    /\ reactions[m][Reaction[r].fromId] = Reaction[r].emoji

\* C3: a reaction whose target message is in the store when onReaction looks
\* it up is applied at most once, and once its processing has finished (its
\* onReaction call has ended and no forMessage call for a target message is
\* still due) the buffer no longer holds it. (Stated for the calls in which
\* no collaborator fails and the target message stays in the store.)
C3_AppliedOnceBufferEmpty ==
  \A r \in ReactionIds :
    (TargetPresentAtLookup(r) /\ failedAt[r] = None
       /\ targetsAtLookup[r][1] \subseteq store) =>
      /\ Applications(r) <= 1
      /\ (pc[r] = "done"
            /\ \A m \in MsgIds : IsTargetOf(m, r) => arrival[m] # "saved")
           => ~InBuffer(r)

\* The apply step of a call: from the job's re-fetch of the target message to
\* the removal of the reaction from the buffer.
InApply(r) == pc[r] \in {"jobFindMessage", "saveMessage", "handleReaction"}

\* C4: the apply steps of two onReaction calls that resolved to the same
\* target conversation never overlap.
C4_NoOverlappingApply ==
  \A r1, r2 \in ReactionIds :
    (r1 # r2 /\ InApply(r1) /\ InApply(r2))
      => targetConversation[r1] # targetConversation[r2]

\* C4's case: one call is inside its apply step while another call with the
\* same target conversation waits in the queue behind it.
C4_Witness ==
  \E r1, r2 \in ReactionIds :
    /\ r1 # r2
    /\ InApply(r1)
    /\ pc[r2] = "queued"
    /\ targetConversation[r1] = targetConversation[r2]

JobLookedUp(r) == targetsAtJob[r] # <<>>

AddedToConversation(r) == \E c \in ConvIds : r \in convMessages[c]

\* C5: the message the apply step hands to handleReaction is a target message
\* that was in the store when the job read it; when the job's own lookup
\* finds no target message in the store, the job mutates no message, sets and
\* saves nothing on the generated message and adds nothing to a conversation.
C5_JobUsesFreshMessage ==
  \A r \in ReactionIds :
    /\ handledOn[r] # None
         => (JobLookedUp(r) /\ handledOn[r] \in targetsAtJob[r][1])
    /\ targetMessage[r] # None
         => (JobLookedUp(r) /\ targetMessage[r] \in targetsAtJob[r][1])
    /\ (JobLookedUp(r) /\ targetsAtJob[r][1] = {})
         => /\ handledOn[r] = None
            /\ generated[r] = <<>>
            /\ saved[r] = <<>>
            /\ ~AddedToConversation(r)

\* C5's case: the target message was found by the first lookup, was deleted
\* before the job ran, and the job ended without applying anything.
C5_Witness ==
  \E r \in ReactionIds :
    /\ TargetPresentAtLookup(r)
    /\ JobLookedUp(r)
    /\ targetsAtJob[r][1] = {}
    /\ failedAt[r] = None
    /\ pc[r] = "done"

CalledBefore(r1, r2) ==
  \E i, j \in 1..Len(calls) : i < j /\ calls[i] = r1 /\ calls[j] = r2

\* C6: when two reactions of one sender to the same non-story message are
\* passed to onReaction one after the other and both apply steps have run,
\* the message carries the emoji of the reaction passed later.
C6_LastWriteWins ==
  \A r1, r2 \in ReactionIds : \A m \in MsgIds :
    ( /\ r1 # r2
      /\ Reaction[r1].fromId = Reaction[r2].fromId
      /\ IsTargetOf(m, r1) /\ IsTargetOf(m, r2) /\ ~IsStory(m)
      /\ CalledBefore(r1, r2)
      /\ outcome[r1] = "Applied" /\ outcome[r2] = "Applied"
      /\ handledOn[r1] = m /\ handledOn[r2] = m
      /\ returnedBy[r1] = {} /\ returnedBy[r2] = {} )
      => reactions[m][Reaction[r1].fromId] = Reaction[r2].emoji

\* The reaction's carrying message is in a direct conversation with someone
\* other than the user.
CarriedInDirectConversation(r) ==
  /\ Reaction[r].conversationId \in ConvIds
  /\ Conversations[Reaction[r].conversationId].type = "private"
  /\ ~Conversations[Reaction[r].conversationId].isMe

\* C7: when a reaction carried in a direct conversation (not the user's own)
\* targets a story, the apply step is queued on that direct conversation, the
\* generated message is saved with the story-reaction metadata and added to
\* that conversation, and the story itself receives no in-place reaction.
C7_StoryReaction ==
  \A r \in ReactionIds : \A m \in MsgIds :
    ( /\ CarriedInDirectConversation(r)
      /\ IsTargetOf(m, r) /\ IsStory(m)
      /\ outcome[r] = "Applied"
      /\ returnedBy[r] = {} )
      => /\ enqueuedOn[r] = Reaction[r].conversationId
         /\ saved[r] # <<>>
         /\ saved[r][1].storyId = m
         /\ saved[r][1].storyReaction =
              [ emoji |-> Reaction[r].emoji,
                targetAuthorUuid |-> Reaction[r].targetAuthorUuid,
                targetTimestamp |-> Reaction[r].targetTimestamp ]
         /\ r \in convMessages[Reaction[r].conversationId]
         /\ reactions[m][Reaction[r].fromId] = None

\* The reaction's target author resolves to no local conversation identity.
UnresolvableAuthor(r) ==
  Reaction[r].targetAuthorUuid \notin {"uuid-me", "uuid-A"}

\* C8: a reaction whose target author cannot be resolved is never in the
\* buffer during or after its onReaction call, causes no store query, no job
\* and no mutation of a message, and its failure is logged exactly once.
C8_UnresolvableAuthorDropped ==
  \A r \in ReactionIds :
    (UnresolvableAuthor(r) /\ pc[r] # "new") =>
      /\ ~InBuffer(r)
      /\ ~LookedUp(r)
      /\ enqueuedOn[r] = None
      /\ Applications(r) = 0
      /\ errors[r] = 1

\* C9: when the first lookup of onReaction finds no stored target message
\* (and the query itself did not fail), the call returns without error, no
\* job was enqueued for it, its job mutated no message, and onReaction did
\* not take the reaction out of the buffer: it is still there unless a
\* forMessage call returned it.
C9_NoMessageLeavesAllAlone ==
  \A r \in ReactionIds :
    (TargetAbsentAtLookup(r) /\ failedAt[r] = None) =>
      /\ pc[r] = "done"
      /\ errors[r] = 0
      /\ ~propagated[r]
      /\ enqueuedOn[r] = None
      /\ handledOn[r] = None
      /\ generated[r] = <<>> /\ saved[r] = <<>> /\ ~AddedToConversation(r)
      /\ InBuffer(r) \/ returnedBy[r] # {}

\* C9's case: the lookup found nothing, the call has returned and the
\* reaction is still in the buffer.
C9_Witness ==
  \E r \in ReactionIds :
    /\ TargetAbsentAtLookup(r)
    /\ failedAt[r] = None
    /\ outcome[r] = "NoMessage"
    /\ InBuffer(r)

InQueue(r) == \E c \in ConvIds : r \in SeqToSet(queue[c])

\* C10: no failure of a collaborator leaves onReaction: a call in which one
\* failed has ended, its promise did not reject and the failure was logged
\* once; and a job that ended, failed or not, has left its queue, so the job
\* at the head of every queue is one that is waiting or running.
C10_NoFailurePropagates ==
  /\ \A r \in ReactionIds :
       /\ ~propagated[r]
       /\ failedAt[r] # None => (pc[r] = "done" /\ errors[r] = 1)
       /\ failedAt[r] = None => errors[r] = 0
       /\ pc[r] = "done" => ~InQueue(r)
  /\ \A c \in ConvIds :
       queue[c] # <<>> =>
         (pc[Head(queue[c])] = "queued" \/ InApply(Head(queue[c])))

\* C10's case: the job of one call failed and a later job on the same
\* conversation queue is running.
C10_Witness ==
  \E r1, r2 \in ReactionIds :
    /\ r1 # r2
    /\ failedAt[r1] = "queueJob"
    /\ ~propagated[r1]
    /\ enqueuedOn[r1] = enqueuedOn[r2]
    /\ InApply(r2)

\* ------------------------------------------ ConversationDetailsGroups.tsx
\* The groups a contact may share with the user, in list order.
GroupIds == 1..MaxGroups

maxShownGroupCount == 5

isMoreThanMaxShown ==
  Cardinality(groupsInCommon) - maxShownGroupCount > 1

groupsToShow ==
  IF showAllGroups THEN Cardinality(groupsInCommon) ELSE maxShownGroupCount

\* groups.slice(0, n): the first n groups of the list.
Slice(groups, n) ==
  {g \in groups : Cardinality({h \in groups : h < g}) < n}

\* The groups a row is rendered for (lines 49-69).
RenderedRows == Slice(groupsInCommon, groupsToShow)

\* Whether the 'show all' row is rendered (lines 70-81).
ShowAllRow == ~showAllGroups /\ isMoreThanMaxShown

\* The component is rendered again with one more or one less group in its
\* props; its state is kept.
JoinGroup(g) ==
  /\ g \notin groupsInCommon
  /\ groupsInCommon' = groupsInCommon \cup {g}
  /\ UNCHANGED showAllGroups
  /\ UNCHANGED <<vars_reactions, fmVars>>

LeaveGroup(g) ==
  /\ g \in groupsInCommon
  /\ groupsInCommon' = groupsInCommon \ {g}
  /\ UNCHANGED showAllGroups
  /\ UNCHANGED <<vars_reactions, fmVars>>

\* The 'show all' row is clicked: setShowAllGroups(true), line 78.
ClickShowAll ==
  /\ ShowAllRow
  /\ showAllGroups' = TRUE
  /\ UNCHANGED groupsInCommon
  /\ UNCHANGED <<vars_reactions, fmVars>>

NextGroups ==
  \/ \E g \in GroupIds : JoinGroup(g)
  \/ \E g \in GroupIds : LeaveGroup(g)
  \/ ClickShowAll

SpecGroups == Init /\ [][NextGroups]_vars

\* ---------------------------------------------------------------------- C11
\* The apply step of a call failed: the job's lookup found no message, the
\* save of the generated message failed, or handleReaction failed.
ApplyFailed(r) ==
  /\ pc[r] = "done"
  /\ \/ outcome[r] = "JobNoMessage"
     \/ failedAt[r] = "queueJob"

\* C11: when the apply step of onReaction fails, the reaction is discarded:
\* once the call has returned, the reaction is not in the collection (so no
\* later forMessage can return it and apply it).
C11_FailedApplyDiscards ==
  \A r \in ReactionIds : ApplyFailed(r) => ~InBuffer(r)

\* ---------------------------------------------------------------------- C12
\* C12: when onReaction found a candidate message but no target conversation
\* resolved, the reaction is dropped for good: no job is enqueued for it, and
\* from then on no forMessage call returns it and nothing applies it.
C12_NoConversationDropsForGood ==
  [][\A r \in ReactionIds :
       outcome[r] = "NoConversation" =>
         /\ enqueuedOn'[r] = None
         /\ handledOn'[r] = None
         /\ returnedBy'[r] = returnedBy[r]]_vars

\* ---------------------------------------------------------------------- C13
\* The own sent messages in the store that carry the reaction's target
\* timestamp.
OwnSentAt(r, st) ==
  {m \in st : IsOutgoing(m)
               /\ Message[m].sent_at = Reaction[r].targetTimestamp}

\* onReaction(r) is called in this step while an own sent message with the
\* reaction's target timestamp is stored.
CalledWithOwnSent(r) ==
  /\ pc[r] = "new"
  /\ pc'[r] # "new"
  /\ OwnSentAt(r, store) # {}

WithTimestampOf(m, buf) ==
  {r \in SeqToSet(buf) : Reaction[r].targetTimestamp = Message[m].sent_at}

\* C14: forMessage called with an outgoing message, the collection holding
\* at least one model with that target timestamp, returns exactly the models
\* with that target timestamp, whatever their target author, and looks up no
\* target author; the by-author match runs only when the outgoing match is
\* empty or the message is not outgoing.
C14_OutgoingMatchByTimestampOnly ==
  fmMessage # None =>
    LET m == fmMessage
        hit == IsOutgoing(m) /\ WithTimestampOf(m, fmBefore) # {}
    IN  /\ hit => /\ SeqToSet(fmReturned[1]) = WithTimestampOf(m, fmBefore)
                  /\ fmLookups[1] = {}
        /\ ~hit => fmLookups[1] = SeqToSet(fmBefore)

\* An outgoing message has claimed models of two different target authors,
\* one of them unresolvable, and no author was looked up.
C14_Witness ==
  /\ fmMessage # None
  /\ IsOutgoing(fmMessage)
  /\ fmLookups[1] = {}
  /\ \E r1, r2 \in SeqToSet(fmReturned[1]) :
       /\ Reaction[r1].targetAuthorUuid # Reaction[r2].targetAuthorUuid
       /\ UnresolvableAuthor(r1)
       /\ LookupOrCreate(Reaction[r2].targetAuthorUuid) # GetContactId(fmMessage)

\* ---------------------------------------------------------------------- C15
\* Every model the forMessage calls with fmMessage have returned.
AllReturned == UNION {SeqToSet(fmReturned[i]) : i \in 1..Len(fmReturned)}

\* C15: forMessage finds and removes in one step: the models it returns are
\* exactly the models it removes from the collection, every model it does
\* not return is left in the collection as it was (same order), and when it
\* returns an empty list the collection is unchanged.
C15_ReturnedIsRemoved ==
  fmMessage # None =>
    /\ AllReturned = SeqToSet(fmBefore) \ SeqToSet(buffer)
    /\ buffer = SelectSeq(fmBefore, LAMBDA r : r \notin AllReturned)
    /\ AllReturned = {} => buffer = fmBefore

\* A call returned two of three models and left the third.
C15_Witness ==
  /\ fmMessage # None
  /\ Len(fmBefore) = 3
  /\ Len(fmReturned[1]) = 2
  /\ Len(buffer) = 1

\* ---------------------------------------------------------------------- C16
\* This step is a step of the onReaction call of r after its first one.
OnReactionStep(r) ==
  /\ pc[r] \notin {"new", "done"}
  /\ pc'[r] # pc[r]

\* C16: a reaction leaves the collection only by being handed to an apply:
\* either forMessage returns it to its caller in that step, or its own
\* onReaction call removes it in the step in which handleReaction for it
\* completed without error. onReaction inserts no reaction (the caller has
\* added it when the call starts) and removes no reaction but its own.
C16_LeavesOnlyToAnApply ==
  [][\A r \in ReactionIds :
       /\ (InBuffer(r) /\ r \notin SeqToSet(buffer')) =>
             \/ returnedBy'[r] # returnedBy[r]
             \/ /\ pc[r] = "handleReaction"
                /\ handledOn'[r] # None
                /\ failedAt'[r] = None
                /\ outcome'[r] = "Applied"
       /\ (~InBuffer(r) /\ r \in SeqToSet(buffer')) => pc[r] = "new"
       /\ OnReactionStep(r) =>
             /\ SeqToSet(buffer) \ SeqToSet(buffer') \subseteq {r}
             /\ SeqToSet(buffer') \subseteq SeqToSet(buffer)]_vars

\* One reaction has left the collection through its own job, another one
\* through forMessage.
C16_Witness ==
  \E r1, r2 \in ReactionIds :
    /\ r1 # r2
    /\ ~InBuffer(r1) /\ outcome[r1] = "Applied" /\ returnedBy[r1] = {}
    /\ ~InBuffer(r2) /\ returnedBy[r2] # {} /\ handledOn[r2] = None
    /\ pc[r2] = "done"

\* ---------------------------------------------------------------------- C17
\* r matches m on either of the two paths of forMessage.
MatchesOutgoing(r, m) ==
  /\ IsOutgoing(m)
  /\ Reaction[r].targetTimestamp = Message[m].sent_at

MatchesBySource(r, m) ==
  /\ LookupOrCreate(Reaction[r].targetAuthorUuid) = GetContactId(m)
  /\ Reaction[r].targetTimestamp = Message[m].sent_at

\* C17: after forMessage(m) has returned, the collection holds no model that
\* matches m on either path, so a second forMessage(m) with no insertion in
\* between returns an empty list and leaves the collection unchanged, for
\* outgoing messages too.
C17_SecondCallFindsNothing ==
  fmMessage # None =>
    /\ \A r \in SeqToSet(buffer) :
         ~MatchesOutgoing(r, fmMessage) /\ ~MatchesBySource(r, fmMessage)
    /\ \A i \in 2..Len(fmReturned) : fmReturned[i] = <<>>
    /\ buffer = SelectSeq(fmBefore, LAMBDA r : r \notin SeqToSet(fmReturned[1]))

\* forMessage was called twice with an outgoing message: the first call
\* claimed something and left something, the second returned nothing.
C17_Witness ==
  /\ fmMessage # None
  /\ IsOutgoing(fmMessage)
  /\ Len(fmReturned) = 2
  /\ fmReturned[1] # <<>>
  /\ fmReturned[2] = <<>>
  /\ buffer # <<>>

\* ---------------------------------------------------------------------- C18
\* C18: every onReaction call made from outside the conversation queues
\* eventually returns, given that every collaborator call returns and every
\* queue runs its jobs in FIFO order: awaiting the queued job never
\* deadlocks, for concurrent calls on the same or on different conversations.
\* A call that has returned stays returned and only MaxCalls calls are made,
\* so this is: from some point on no call is pending.
C18_EveryCallReturns ==
  <>[](\A r \in ReactionIds : pc[r] \in {"new", "done"})

\* Two calls had their jobs on the same conversation queue at the same
\* time, the second waiting behind the first.
C18_Witness ==
  \E c \in ConvIds : Len(queue[c]) = 2 /\ pc[queue[c][1]] = "handleReaction"

\* ---------------------------------------------------------------------- C19
\* C19: whatever the length of groupsInCommon and the state of showAllGroups,
\* no group is out of reach: a row is rendered for every group or the 'show
\* all' row is rendered, and once 'show all' has been clicked a row is
\* rendered for every group and the 'show all' row is not rendered.
C19_NoGroupOutOfReach ==
  /\ RenderedRows = groupsInCommon \/ ShowAllRow
  /\ showAllGroups => RenderedRows = groupsInCommon /\ ~ShowAllRow
====
